---- MODULE Spec2Model ----
(***************************************************************************)
(* BlackBookFinance: the conversion graph resolver (Commodity.convert_to), *)
(* the ledger balancer (Posting.save, update_balancing_amount,             *)
(* Posting.calculate_balance_amount) and the price ingestion (the          *)
(* updateprices command, BaseBackend.update_prices and the backends).      *)
(*                                                                         *)
(* Decimal values are fixed-point integers: a conversion factor or a price *)
(* is an integer number of 10^-FracDigits, a posting amount an integer     *)
(* number of cents (decimal_places = 2).  Python's Decimal rounds every    *)
(* inexact result half-even to the context precision; here every factor    *)
(* operation rounds half-even to FracDigits fractional digits.             *)
(***************************************************************************)
EXTENDS Integers, Sequences, FiniteSets, TLC

\* ------------------------------------------------------------------ bounds
FracDigits == 2
MaxPrices == 3
MaxPostings == 3

\* ------------------------------------------------------- Decimal arithmetic
RECURSIVE Pow10(_)
Pow10(n) == IF n = 0 THEN 1 ELSE 10 * Pow10(n - 1)

Unit == Pow10(FracDigits)

\* Decimal(1.0)
One == Unit

\* ROUND_HALF_EVEN of n / d, d > 0
RoundHalfEven(n, d) ==
    LET q == n \div d
        r == n - q * d
    IN  IF 2 * r < d THEN q
        ELSE IF 2 * r > d THEN q + 1
        ELSE IF q % 2 = 0 THEN q ELSE q + 1

DecMul(a, b) == RoundHalfEven(a * b, Unit)

DecDiv(a, b) == RoundHalfEven(a * Unit, b)

\* ------------------------------------------------------------ value domains
Commodities == {"EUR", "USD", "GBP"}

\* codes a caller may pass as a string; "CHF" matches no commodity
Codes == {"USD", "CHF"}

Dates == {1, 2}

Backends == {"Manual"}

\* prices written to the store: 2.0 and 3.0
PriceValues == {2 * Unit, 3 * Unit}

\* the transactions postings are entered in
Transactions == {"t1"}

PostingIds == 1..MaxPostings

\* commodities postings are entered in
PostingCommodities == {"USD", "EUR"}

\* amounts entered, in cents: 0.00 and 1.00
AmountInputs == {0, 100}

\* the accounts postings are booked on
Accounts == {"checking"}

\* Account.default_currency: the base currency unless set otherwise
default_currency == [acc \in Accounts |-> "EUR"]

NoCommodity == "none"

VARIABLES
    prices,     \* the Price table: a set of rows
    pc,         \* position of the convert_to call: "idle", "bfs", "done"
    self,       \* the commodity convert_to was called on
    target,     \* the resolved target commodity (NoCommodity: unresolved)
    graph,      \* graph: commodity -> sequence of neighbours
    prices_lookup, \* (commodity, unit) -> weight, 0 where there is no entry
    queue,      \* the BFS deque of [node, path, factor]
    visited,    \* the BFS visited set
    path,       \* the path of the entry dequeued last
    result,     \* the value convert_to returned
    postings,   \* the Posting table: a set of rows
    saved,      \* id of the posting whose save ran last, 0 before any save
    raised,     \* whether that save ended in an exception
    today,      \* timezone.now().date()
    cmd,        \* position of the updateprices command: "idle", "loop", "insert"
    index,      \* position of the command's for loop in its list of backends
    calls,      \* names of the backends whose update_prices was called, in call order
    report,     \* what the command wrote for each backend: its name and the outcome
    responses,  \* what the site answered for each commodity the last fetch requested
    new_prices, \* the records the last _fetch_prices returned
    tx_rows,    \* rows inserted in the open atomic block, not yet committed
    before,     \* the Price table when update_prices was called last
    writers     \* the saves of postings in progress, one per connection

vars == <<prices, pc, self, target, graph, prices_lookup, queue, visited, path, result,
          postings, saved, raised,
          today, cmd, index, calls, report, responses, new_prices, tx_rows, before,
          writers>>

bfsVars == <<pc, self, target, graph, prices_lookup, queue, visited, path, result>>

ledgerVars == <<postings, saved, raised>>

ingestVars == <<today, cmd, index, calls, report, responses, new_prices, tx_rows, before>>

\* --------------------------------------------------------------- Price rows
PriceKey(r) == <<r.commodity, r.unit, r.date, r.backend>>

\* Price.Meta.constraints without unique_price_per_day
PriceConstraintsNoUnique(rows, r) == r.price > 0

\* Price.Meta.constraints: unique_price_per_day and positive_price
PriceConstraints(rows, r) ==
    /\ \A o \in rows : PriceKey(o) # PriceKey(r)
    /\ r.price > 0

\* Step 1: the latest date of every (commodity, unit) pair
LatestDates(rows) ==
    { [commodity |-> r.commodity, unit |-> r.unit, latest_date |-> r.date] :
        r \in { x \in rows : \A o \in rows :
                   (o.commodity = x.commodity /\ o.unit = x.unit) => o.date <= x.date } }

\* Step 2: the rows the filter commodity__in / unit__in / date__in selects
LatestPrices(rows) ==
    LET ld == LatestDates(rows)
    IN  { r \in rows :
            /\ r.commodity \in { e.commodity : e \in ld }
            /\ r.unit \in { e.unit : e \in ld }
            /\ r.date \in { e.latest_date : e \in ld } }

\* Price.Meta.ordering = ["-date"]: every order of the selected rows with
\* non-increasing dates (the order among rows of one date is the database's)
RowOrders(rows) ==
    LET n == Cardinality(rows)
    IN  { s \in [1..n -> rows] :
            /\ \A i, j \in 1..n : i # j => s[i] # s[j]
            /\ \A i \in 1..n : i < n => s[i].date >= s[i + 1].date }

EmptyGraph == [c \in Commodities |-> <<>>]

EmptyLookup == [p \in Commodities \X Commodities |-> 0]

\* the loop body storing the price itself as the weight of the reverse edge
AddEdgeNoInverse(g, row) ==
    LET fwd == [g.graph EXCEPT ![row.commodity] = Append(@, row.unit)]
        lk1 == [g.lookup EXCEPT ![<<row.commodity, row.unit>>] = row.price]
    IN  IF row.price # 0
        THEN [graph  |-> [fwd EXCEPT ![row.unit] = Append(@, row.commodity)],
              lookup |-> [lk1 EXCEPT ![<<row.unit, row.commodity>>] = row.price]]
        ELSE [graph |-> fwd, lookup |-> lk1]

\* one iteration of "for price in latest_prices"
AddEdge(g, row) ==
    LET fwd == [g.graph EXCEPT ![row.commodity] = Append(@, row.unit)]
        lk1 == [g.lookup EXCEPT ![<<row.commodity, row.unit>>] = row.price]
    IN  IF row.price # 0
        THEN [graph  |-> [fwd EXCEPT ![row.unit] = Append(@, row.commodity)],
              lookup |-> [lk1 EXCEPT ![<<row.unit, row.commodity>>] = DecDiv(One, row.price)]]
        ELSE [graph |-> fwd, lookup |-> lk1]

RECURSIVE BuildGraph(_, _, _)
BuildGraph(order, i, g) ==
    IF i > Len(order) THEN g
    ELSE BuildGraph(order, i + 1, AddEdge(g, order[i]))

Snapshot(order) == BuildGraph(order, 1, [graph |-> EmptyGraph, lookup |-> EmptyLookup])

\* ---------------------------------------------------------------------- BFS
\* Expand with the weight of the edge read in the wrong direction
RECURSIVE ExpandReversed(_, _, _, _, _, _)
ExpandReversed(q, entry, nbrs, i, seen, g) ==
    IF i > Len(nbrs) THEN q
    ELSE LET nb == nbrs[i]
         IN  IF nb \notin seen
             THEN ExpandReversed(Append(q, [node   |-> nb,
                                            path   |-> Append(entry.path, nb),
                                            factor |-> DecMul(entry.factor, g.lookup[<<nb, entry.node>>])]),
                                 entry, nbrs, i + 1, seen, g)
             ELSE ExpandReversed(q, entry, nbrs, i + 1, seen, g)

\* Expand pushing every neighbour on the left end of the queue
RECURSIVE ExpandLeft(_, _, _, _, _, _)
ExpandLeft(q, entry, nbrs, i, seen, g) ==
    IF i > Len(nbrs) THEN q
    ELSE LET nb == nbrs[i]
         IN  IF nb \notin seen
             THEN ExpandLeft(<< [node   |-> nb,
                                 path   |-> Append(entry.path, nb),
                                 factor |-> DecMul(entry.factor, g.lookup[<<entry.node, nb>>])] >> \o q,
                             entry, nbrs, i + 1, seen, g)
             ELSE ExpandLeft(q, entry, nbrs, i + 1, seen, g)

\* the neighbours of one dequeued entry, appended in adjacency order
RECURSIVE Expand(_, _, _, _, _, _)
Expand(q, entry, nbrs, i, seen, g) ==
    IF i > Len(nbrs) THEN q
    ELSE LET nb == nbrs[i]
         IN  IF nb \notin seen
             THEN Expand(Append(q, [node   |-> nb,
                                    path   |-> Append(entry.path, nb),
                                    factor |-> DecMul(entry.factor, g.lookup[<<entry.node, nb>>])]),
                         entry, nbrs, i + 1, seen, g)
             ELSE Expand(q, entry, nbrs, i + 1, seen, g)

\* BfsStep that never adds the dequeued commodity to visited
BfsStepNoVisited(st, g, tgt) ==
    LET entry == Head(st.queue)
    IN  IF entry.node = tgt
        THEN [st EXCEPT !.queue = Tail(@), !.done = TRUE, !.result = entry.factor]
        ELSE [st EXCEPT !.queue = Expand(Tail(st.queue), entry, g.graph[entry.node], 1, st.visited, g)]

\* BfsStep that tests for the target among the neighbours of the dequeued
\* commodity instead of testing the dequeued commodity itself
BfsStepLateCheck(st, g, tgt) ==
    LET entry == Head(st.queue)
        nbrs  == g.graph[entry.node]
    IN  IF \E i \in 1..Len(nbrs) : nbrs[i] = tgt
        THEN [st EXCEPT !.queue = Tail(@), !.done = TRUE,
                        !.result = DecMul(entry.factor, g.lookup[<<entry.node, tgt>>])]
        ELSE LET seen == st.visited \cup {entry.node}
             IN  [st EXCEPT !.queue = Expand(Tail(st.queue), entry, nbrs, 1, seen, g),
                            !.visited = seen]

\* one iteration of "while queue"; st = [queue, visited, done, result]
BfsStep(st, g, tgt) ==
    LET entry == Head(st.queue)
    IN  IF entry.node = tgt
        THEN [st EXCEPT !.queue = Tail(@), !.done = TRUE, !.result = entry.factor]
        ELSE LET seen == st.visited \cup {entry.node}
             IN  [st EXCEPT !.queue = Expand(Tail(st.queue), entry, g.graph[entry.node], 1, seen, g),
                            !.visited = seen]

BfsInit(src) ==
    [queue   |-> << [node |-> src, path |-> <<src>>, factor |-> One] >>,
     visited |-> {},
     done    |-> FALSE,
     result  |-> One]

RECURSIVE BfsRun(_, _, _)
BfsRun(st, g, tgt) ==
    IF st.done THEN st.result
    ELSE IF st.queue = <<>> THEN One
    ELSE BfsRun(BfsStep(st, g, tgt), g, tgt)

\* Commodity.objects.get(code=...): the commodity of that code, if any
GetByCode(code) == IF code \in Commodities THEN code ELSE NoCommodity

\* convert_to as one call, for a given order of the query result
convert_to(src, tgt, order) == BfsRun(BfsInit(src), Snapshot(order), tgt)

\* ---------------------------------------------------------- price ingestion
\* the Commodity rows as configured: backend, auto_update, commodity_type and
\* website_currency
CommodityConfig ==
    [c \in Commodities |->
        IF c = "EUR"
        THEN [backend |-> "yahoo", auto_update |-> TRUE, commodity_type |-> "currency",
              website_currency |-> NoCommodity]
        ELSE [backend |-> "website", auto_update |-> TRUE, commodity_type |-> "currency",
              website_currency |-> "EUR"]]

\* Commodity.Meta.ordering = ["name", "code"]: British Pound, Euro, US Dollar
CommodityOrder == <<"GBP", "EUR", "USD">>

\* the classes of the list in Command.handle, each with the methods its own
\* class body defines
BackendList ==
    << [name |-> "Yahoo Finance", backend |-> "yahoo", capabilities |-> <<"currency">>,
        methods |-> {"fetch_prices"}],
       [name |-> "Website Scraper", backend |-> "website", capabilities |-> <<"__all__">>,
        methods |-> {"_fetch_prices"}] >>

\* attribute lookup on a backend instance: the class that defines the method
MethodOwner(b, m) == IF m \in b.methods THEN b.name ELSE "Base Backend"

\* BaseBackend._fetch_commodities: the codes selected, in query order
fetch_commodities(b) ==
    SelectSeq(CommodityOrder,
              LAMBDA c : /\ CommodityConfig[c].backend = b.backend
                         /\ CommodityConfig[c].auto_update
                         /\ (b.capabilities[1] # "__all__" =>
                               \E i \in 1..Len(b.capabilities) :
                                   b.capabilities[i] = CommodityConfig[c].commodity_type))

\* tree.xpath(...) found no node
NoNode == 0 - 1

\* what a site may answer: 200 with a price of 2.0 or of 0, 200 without the
\* price node, 404
Responses ==
    { [status |-> 200, price |-> 2 * Unit], [status |-> 200, price |-> 0],
      [status |-> 200, price |-> NoNode], [status |-> 404, price |-> NoNode] }

\* no request was sent for the commodity
NotRequested == [status |-> 0, price |-> NoNode]

NoResponses == [c \in Commodities |-> NotRequested]

\* no command is running
IngestIdle ==
    /\ today = 1
    /\ cmd = "idle"
    /\ index = 0
    /\ calls = <<>>
    /\ report = <<>>
    /\ responses = NoResponses
    /\ new_prices = <<>>
    /\ tx_rows = {}
    /\ before = {}

\* a save that is not running
NoPosting ==
    [id |-> 0, transaction |-> "none", account |-> "none", commodity |-> NoCommodity,
     amount |-> 0, is_balance_posting |-> FALSE]

\* the connections that save postings
Writers == {1, 2}

\* a connection between two saves; mode records how its last save ran
IdleWriter(mode) ==
    [pc |-> "idle", instance |-> NoPosting, balance_posting |-> NoPosting,
     balance_amount |-> 0, mode |-> mode]

WritersIdle == writers = [w \in Writers |-> IdleWriter("none")]

\* ------------------------------------------------------------------ actions
Init ==
    /\ prices = {}
    /\ pc = "idle"
    /\ self = NoCommodity
    /\ target = NoCommodity
    /\ graph = EmptyGraph
    /\ prices_lookup = EmptyLookup
    /\ queue = <<>>
    /\ visited = {}
    /\ path = <<>>
    /\ result = One
    /\ postings = {}
    /\ saved = 0
    /\ raised = FALSE
    /\ IngestIdle
    /\ WritersIdle

\* Price.objects.create / bulk_create of one row
CreatePrice ==
    /\ pc = "idle"
    /\ Cardinality(prices) < MaxPrices
    /\ \E c \in Commodities, u \in Commodities, d \in Dates, b \in Backends, p \in PriceValues :
          LET row == [commodity |-> c, unit |-> u, date |-> d, backend |-> b, price |-> p]
          IN  /\ c # u
              /\ PriceConstraints(prices, row)
              /\ prices' = prices \cup {row}
    /\ UNCHANGED bfsVars
    /\ UNCHANGED ledgerVars
    /\ UNCHANGED writers
    /\ UNCHANGED ingestVars

\* convert_to called with a code string that matches no commodity
ConvertUnknownCode ==
    /\ pc = "idle"
    /\ \E src \in Commodities, code \in Codes :
          /\ GetByCode(code) = NoCommodity
          /\ self' = src
          /\ target' = NoCommodity
          /\ result' = One
          /\ pc' = "done"
    /\ UNCHANGED <<prices, graph, prices_lookup, queue, visited, path>>
    /\ UNCHANGED ledgerVars
    /\ UNCHANGED writers
    /\ UNCHANGED ingestVars

\* convert_to called with a commodity (used as it is) or with a code string
\* that resolves to one: the snapshot graph is built and the queue set up
ConvertStart ==
    /\ pc = "idle"
    /\ \E src \in Commodities, tgt \in Commodities \cup Codes, order \in RowOrders(LatestPrices(prices)) :
          /\ GetByCode(tgt) # NoCommodity
          /\ self' = src
          /\ target' = GetByCode(tgt)
          /\ graph' = Snapshot(order).graph
          /\ prices_lookup' = Snapshot(order).lookup
          /\ queue' = BfsInit(src).queue
          /\ visited' = {}
          /\ pc' = "bfs"
    /\ UNCHANGED <<prices, path, result>>
    /\ UNCHANGED ledgerVars
    /\ UNCHANGED writers
    /\ UNCHANGED ingestVars

\* one iteration of the while loop
ConvertStep ==
    /\ pc = "bfs"
    /\ queue # <<>>
    /\ path' = Head(queue).path
    /\ LET st == BfsStep([queue |-> queue, visited |-> visited, done |-> FALSE, result |-> result],
                         [graph |-> graph, lookup |-> prices_lookup], target)
       IN  /\ queue' = st.queue
           /\ visited' = st.visited
           /\ result' = st.result
           /\ pc' = IF st.done THEN "done" ELSE "bfs"
    /\ UNCHANGED <<prices, self, target, graph, prices_lookup>>
    /\ UNCHANGED ledgerVars
    /\ UNCHANGED writers
    /\ UNCHANGED ingestVars

\* ConvertExhausted returning the factor accumulated last
ConvertExhaustedLastFactor ==
    /\ pc = "bfs"
    /\ queue = <<>>
    /\ result' = IF Len(path) <= 1 THEN One
                 ELSE prices_lookup[<<path[Len(path) - 1], path[Len(path)]>>]
    /\ pc' = "done"
    /\ UNCHANGED <<prices, self, target, graph, prices_lookup, queue, visited, path>>
    /\ UNCHANGED ledgerVars
    /\ UNCHANGED writers
    /\ UNCHANGED ingestVars

\* the queue is empty: return Decimal(1.0)
ConvertExhausted ==
    /\ pc = "bfs"
    /\ queue = <<>>
    /\ result' = One
    /\ pc' = "done"
    /\ UNCHANGED <<prices, self, target, graph, prices_lookup, queue, visited, path>>
    /\ UNCHANGED ledgerVars
    /\ UNCHANGED writers
    /\ UNCHANGED ingestVars

\* the caller has the result; the locals are gone
ConvertReturn ==
    /\ pc = "done"
    /\ pc' = "idle"
    /\ self' = NoCommodity
    /\ target' = NoCommodity
    /\ graph' = EmptyGraph
    /\ prices_lookup' = EmptyLookup
    /\ queue' = <<>>
    /\ visited' = {}
    /\ path' = <<>>
    /\ result' = One
    /\ UNCHANGED prices
    /\ UNCHANGED ledgerVars
    /\ UNCHANGED writers
    /\ UNCHANGED ingestVars

Next ==
    \/ CreatePrice
    \/ ConvertUnknownCode
    \/ ConvertStart
    \/ ConvertStep
    \/ ConvertExhausted
    \/ ConvertReturn

Spec == Init /\ [][Next]_vars

\* ------------------------------------------------------------------- ledger
\* DecimalField(decimal_places=2): a value in cents * 10^-FracDigits is
\* stored as whole cents, rounded half-even
Quantize(total) == RoundHalfEven(total, Unit)

\* Posting.save setting the flag to whether the amount is zero
PostingSaveFlagFromAmount(inst) ==
    [inst EXCEPT !.is_balance_posting = (inst.amount = 0)]

\* Posting.save: a posting whose amount is zero is flagged, then written
PostingSave(inst) ==
    IF inst.amount = 0 THEN [inst EXCEPT !.is_balance_posting = TRUE] ELSE inst

\* super().save(): the row of that id is inserted or replaced
WriteRow(rows, inst) == { p \in rows : p.id # inst.id } \cup {inst}

\* instance.transaction.postings
TransactionPostings(rows, t) == { p \in rows : p.transaction = t }

RECURSIVE SumTerms(_, _, _)
SumTerms(rows, inst, order) ==
    IF rows = {} THEN 0
    ELSE LET p == CHOOSE x \in rows : TRUE
             term == IF p.commodity = inst.commodity
                     THEN p.amount * Unit
                     ELSE p.amount * convert_to(p.commodity, inst.commodity, order)
         IN  SumTerms(rows \ {p}, inst, order) - term

\* calculate_balance_amount with the balance posting's row counted in
calculate_balance_amount_all(rows, inst, order) ==
    SumTerms(TransactionPostings(rows, inst.transaction), inst, order)

\* Posting.calculate_balance_amount, in cents * 10^-FracDigits; order is the
\* row order the price queries of this run return
calculate_balance_amount(rows, inst, order) ==
    SumTerms({ p \in TransactionPostings(rows, inst.transaction) : ~p.is_balance_posting },
             inst, order)

\* update_balancing_amount adding the computed amount to the stored one
update_balancing_amount_accumulate(rows, inst, order) ==
    LET flagged == { p \in TransactionPostings(rows, inst.transaction) : p.is_balance_posting }
    IN  IF flagged = {}
        THEN [rows |-> rows, raised |-> FALSE]
        ELSE IF Cardinality(flagged) > 1
        THEN [rows |-> rows, raised |-> TRUE]
        ELSE LET balance_posting == CHOOSE p \in flagged : TRUE
                 balance_amount  == calculate_balance_amount(rows, inst, order)
             IN  IF balance_posting.amount * Unit # balance_amount
                 THEN [rows   |-> WriteRow(rows, [balance_posting EXCEPT
                                    !.amount = Quantize(balance_posting.amount * Unit + balance_amount)]),
                       raised |-> FALSE]
                 ELSE [rows |-> rows, raised |-> FALSE]

\* update_balancing_amount: the rows and the outcome of the post_save handler
update_balancing_amount(rows, inst, order) ==
    LET flagged == { p \in TransactionPostings(rows, inst.transaction) : p.is_balance_posting }
    IN  IF flagged = {}
        THEN [rows |-> rows, raised |-> FALSE]                \* DoesNotExist
        ELSE IF Cardinality(flagged) > 1
        THEN [rows |-> rows, raised |-> TRUE]                 \* MultipleObjectsReturned
        ELSE LET balance_posting == CHOOSE p \in flagged : TRUE
                 balance_amount  == calculate_balance_amount(rows, inst, order)
             IN  IF balance_posting.amount * Unit # balance_amount
                 THEN [rows   |-> WriteRow(rows, [balance_posting EXCEPT
                                                    !.amount = Quantize(balance_amount)]),
                       raised |-> FALSE]
                 ELSE [rows |-> rows, raised |-> FALSE]

\* the rates the ledger runs against
LedgerRows ==
    { [commodity |-> "USD", unit |-> "EUR", date |-> 1, backend |-> "Manual", price |-> 2 * Unit],
      [commodity |-> "EUR", unit |-> "USD", date |-> 1, backend |-> "Manual", price |-> 3 * Unit] }

LedgerInit ==
    /\ prices \in SUBSET LedgerRows
    /\ pc = "idle"
    /\ self = NoCommodity
    /\ target = NoCommodity
    /\ graph = EmptyGraph
    /\ prices_lookup = EmptyLookup
    /\ queue = <<>>
    /\ visited = {}
    /\ path = <<>>
    /\ result = One
    /\ postings = {}
    /\ saved = 0
    /\ raised = FALSE
    /\ IngestIdle
    /\ WritersIdle

\* a posting is created or updated: Posting.save, then the post_save handler.
\* save opens no atomic block, so the row stays written when the handler
\* raises.  order is the row order the price queries of this run return.
SavePosting ==
    \E order \in RowOrders(LatestPrices(prices)) :
    \E id \in PostingIds, t \in Transactions, acc \in Accounts, c \in PostingCommodities,
       a \in AmountInputs, f \in BOOLEAN :
        \E inst \in { PostingSave([id |-> id, transaction |-> t, account |-> acc, commodity |-> c,
                                   amount |-> a, is_balance_posting |-> f]) } :
        \E out \in { update_balancing_amount(WriteRow(postings, inst), inst, order) } :
            /\ postings' = out.rows
            /\ raised' = out.raised
            /\ saved' = id
            /\ UNCHANGED prices
            /\ UNCHANGED bfsVars
            /\ UNCHANGED ingestVars
            /\ UNCHANGED writers

LedgerNext == SavePosting

LedgerSpec == LedgerInit /\ [][LedgerNext]_vars

\* ----------------------------------------------------------- posting deletion
RECURSIVE NegatedSum(_)
NegatedSum(rows) ==
    IF rows = {} THEN 0
    ELSE LET p == CHOOSE x \in rows : TRUE IN NegatedSum(rows \ {p}) - p.amount

\* delete followed by a recompute of the transaction's balance posting, as a
\* post_delete handler would do it
delete_and_rebalance(rows, p) ==
    LET rest    == rows \ {p}
        flagged == { q \in TransactionPostings(rest, p.transaction) : q.is_balance_posting }
        others  == { q \in TransactionPostings(rest, p.transaction) : ~q.is_balance_posting }
    IN  IF Cardinality(flagged) # 1 THEN rest
        ELSE LET b == CHOOSE q \in flagged : TRUE
             IN  WriteRow(rest, [b EXCEPT !.amount = NegatedSum(others)])

\* Posting.delete(): the row is removed; only post_save has a receiver, so
\* nothing else runs
delete(rows, p) == rows \ {p}

\* the ledger on one rate store: EUR priced at 3.0 USD
DeleteInit ==
    /\ LedgerInit
    /\ prices = { r \in LedgerRows : r.commodity = "EUR" }

\* a posting is deleted
DeletePosting ==
    /\ \E p \in postings : postings' = delete(postings, p)
    /\ saved' = 0
    /\ raised' = FALSE
    /\ UNCHANGED prices
    /\ UNCHANGED bfsVars
    /\ UNCHANGED ingestVars
    /\ UNCHANGED writers

DeleteNext ==
    \/ SavePosting
    \/ DeletePosting

DeleteSpec == DeleteInit /\ [][DeleteNext]_vars

\* ------------------------------------------------ concurrent posting saves
\* Two connections save postings; a save is the row write of Posting.save
\* and then the three queries of the post_save handler, each committed on its
\* own (no transaction is opened), so the steps of two saves interleave.
Active(w) == writers[w].pc # "idle"

\* how the save that w starts runs: next to another save ("raced"), as the
\* first save on its own after saves that ran next to each other
\* ("recover"), or on its own otherwise ("alone")
StartMode(w) ==
    IF \E o \in Writers \ {w} : Active(o) THEN "raced"
    ELSE IF \E o \in Writers : writers[o].mode = "raced" THEN "recover"
    ELSE "alone"

\* the ledger on one rate store: EUR priced at 3.0 USD
RaceInit ==
    /\ LedgerInit
    /\ prices = { r \in LedgerRows : r.commodity = "EUR" }

\* the postings the two connections save: posting 1 is entered with amount
\* zero, which makes it the balance posting, the others with an amount and
\* without the flag
RaceInputs ==
    { inst \in [id : PostingIds, transaction : Transactions, account : Accounts,
                commodity : PostingCommodities, amount : AmountInputs,
                is_balance_posting : {FALSE}] :
        (inst.id = 1) = (inst.amount = 0) }

\* Posting.save up to super().save(): the row is written
RaceSave(w) ==
    /\ ~Active(w)
    /\ \E input \in RaceInputs :
           \E inst \in { PostingSave(input) } :
               /\ postings' = WriteRow(postings, inst)
               /\ writers' = [o \in Writers |->
                                IF o = w
                                THEN [IdleWriter(StartMode(w)) EXCEPT !.pc = "saved", !.instance = inst]
                                ELSE IF Active(o) THEN [writers[o] EXCEPT !.mode = "raced"]
                                ELSE IdleWriter("none")]
    /\ saved' = 0
    /\ raised' = FALSE
    /\ UNCHANGED prices
    /\ UNCHANGED bfsVars
    /\ UNCHANGED ingestVars

\* instance.transaction.postings.get(is_balance_posting=True)
RaceGet(w) ==
    /\ writers[w].pc = "saved"
    /\ \E flagged \in { { p \in TransactionPostings(postings, writers[w].instance.transaction) :
                             p.is_balance_posting } } :
          IF Cardinality(flagged) = 1
          THEN /\ writers' = [writers EXCEPT ![w].pc = "got",
                                             ![w].balance_posting = CHOOSE p \in flagged : TRUE]
               /\ UNCHANGED <<saved, raised>>
          ELSE /\ writers' = [writers EXCEPT ![w] = IdleWriter(writers[w].mode)]
               /\ saved' = writers[w].instance.id
               /\ raised' = (flagged # {})
    /\ UNCHANGED postings
    /\ UNCHANGED prices
    /\ UNCHANGED bfsVars
    /\ UNCHANGED ingestVars

\* instance.calculate_balance_amount()
RaceCalculate(w) ==
    /\ writers[w].pc = "got"
    /\ \E order \in RowOrders(LatestPrices(prices)) :
          writers' = [writers EXCEPT ![w].pc = "computed",
                                     ![w].balance_amount =
                                         calculate_balance_amount(postings, writers[w].instance, order)]
    /\ UNCHANGED ledgerVars
    /\ UNCHANGED prices
    /\ UNCHANGED bfsVars
    /\ UNCHANGED ingestVars

\* the comparison and Posting.objects.filter(id=balance_posting.id).update(amount=...)
RaceUpdate(w) ==
    /\ writers[w].pc = "computed"
    /\ postings' = IF writers[w].balance_posting.amount * Unit # writers[w].balance_amount
                   THEN { IF p.id = writers[w].balance_posting.id
                          THEN [p EXCEPT !.amount = Quantize(writers[w].balance_amount)]
                          ELSE p : p \in postings }
                   ELSE postings
    /\ writers' = [writers EXCEPT ![w] = IdleWriter(writers[w].mode)]
    /\ saved' = writers[w].instance.id
    /\ raised' = FALSE
    /\ UNCHANGED prices
    /\ UNCHANGED bfsVars
    /\ UNCHANGED ingestVars

RaceNext ==
    \E w \in Writers :
        \/ RaceSave(w)
        \/ RaceGet(w)
        \/ RaceCalculate(w)
        \/ RaceUpdate(w)

RaceSpec == RaceInit /\ [][RaceNext]_vars

\* -------------------------------------------------------- updateprices command
\* Max("date") of the backend's rows of a commodity, 0 when it has none
latest_date(rows, name, c) ==
    LET ds == { r.date : r \in { x \in rows : x.backend = name /\ x.commodity = c } }
    IN  IF ds = {} THEN 0 ELSE CHOOSE d \in ds : \A e \in ds : e <= d

\* WebsiteBackend._fetch_prices requesting the site for every commodity, also
\* one that has a row of today
RECURSIVE WebsiteFetchAlways(_, _, _, _, _, _, _)
WebsiteFetchAlways(codes, i, rows, name, day, resp, acc) ==
    IF i > Len(codes) \/ acc.exception # "" THEN acc
    ELSE LET c == codes[i]
             r == resp[c]
             asked == [acc EXCEPT !.responses[c] = r]
         IN  IF r.status # 200
             THEN WebsiteFetchAlways(codes, i + 1, rows, name, day, resp, asked)
             ELSE IF r.price = NoNode
             THEN [asked EXCEPT !.exception = "IndexError"]
             ELSE WebsiteFetchAlways(codes, i + 1, rows, name, day, resp,
                      [asked EXCEPT !.prices = Append(@,
                          [commodity |-> c, price |-> r.price,
                           unit |-> CommodityConfig[c].website_currency, date |-> day])])

\* WebsiteBackend._fetch_prices: the loop over commodities.items(); acc holds
\* the list built so far, the answers received and the exception raised
RECURSIVE WebsiteFetch(_, _, _, _, _, _, _)
WebsiteFetch(codes, i, rows, name, day, resp, acc) ==
    IF i > Len(codes) \/ acc.exception # "" THEN acc
    ELSE LET c == codes[i]
             r == resp[c]
             asked == [acc EXCEPT !.responses[c] = r]
         IN  IF ~(latest_date(rows, name, c) = 0 \/ latest_date(rows, name, c) < day)
             THEN WebsiteFetch(codes, i + 1, rows, name, day, resp, acc)
             ELSE IF r.status # 200
             THEN WebsiteFetch(codes, i + 1, rows, name, day, resp, asked)
             ELSE IF r.price = NoNode
             THEN [asked EXCEPT !.exception = "IndexError"]
             ELSE WebsiteFetch(codes, i + 1, rows, name, day, resp,
                      [asked EXCEPT !.prices = Append(@,
                          [commodity |-> c, price |-> r.price,
                           unit |-> CommodityConfig[c].website_currency, date |-> day])])

\* self._fetch_prices(commodities, period) as update_prices calls it: the
\* method of the class that defines it
fetch_prices(b, rows, day, resp) ==
    IF MethodOwner(b, "_fetch_prices") = "Website Scraper"
    THEN WebsiteFetch(fetch_commodities(b), 1, rows, b.name, day, resp,
                      [prices |-> <<>>, responses |-> NoResponses, exception |-> ""])
    ELSE [prices |-> <<>>, responses |-> NoResponses, exception |-> "NotImplementedError"]

\* leaving the atomic block of update_prices by an exception, with the rows
\* inserted so far left in the table
RollbackKeepsInserted(rows, tx) == rows \cup tx

\* leaving the atomic block of update_prices by an exception
Rollback(rows, tx) == rows

\* leaving the atomic block of update_prices normally
Commit(rows, tx) == rows \cup tx

\* Command.handle letting the exception of a backend leave the command
HandlePropagates(st, b, exc) ==
    [cmd |-> "raised", index |-> st.index, report |-> st.report]

\* Command.handle, except Exception: the failure is written for that backend
\* and the loop goes on
HandleException(st, b, exc) ==
    [cmd    |-> "loop",
     index  |-> st.index + 1,
     report |-> Append(st.report, [backend |-> b.name, outcome |-> exc])]

\* Command.handle after update_prices returned: " done" is written
HandleSuccess(st, b) ==
    [cmd    |-> "loop",
     index  |-> st.index + 1,
     report |-> Append(st.report, [backend |-> b.name, outcome |-> "done"])]

\* the date moves on between two runs of the command
Tick ==
    /\ cmd = "idle"
    /\ today + 1 \in Dates
    /\ today' = today + 1
    /\ UNCHANGED <<prices, cmd, index, calls, report, responses, new_prices, tx_rows, before>>
    /\ UNCHANGED bfsVars
    /\ UNCHANGED ledgerVars
    /\ UNCHANGED writers

\* a price entered by hand while no command runs, for a commodity the site
\* is scraped for, in the unit and of the date the scraper would write
ManualCreatePrice ==
    /\ cmd = "idle"
    /\ CreatePrice
    /\ \A r \in prices' \ prices :
          /\ CommodityConfig[r.commodity].backend = "website"
          /\ r.unit = CommodityConfig[r.commodity].website_currency
          /\ r.date = today

\* manage.py updateprices: Command.handle up to its for loop
HandleStart ==
    /\ cmd = "idle"
    /\ cmd' = "loop"
    /\ index' = 1
    /\ calls' = <<>>
    /\ report' = <<>>
    /\ UNCHANGED <<prices, today, responses, new_prices, tx_rows, before>>
    /\ UNCHANGED bfsVars
    /\ UNCHANGED ledgerVars
    /\ UNCHANGED writers

\* backend.update_prices(period) up to bulk_create: the atomic block is
\* entered, the commodities are selected and the prices fetched
UpdatePricesFetch ==
    /\ cmd = "loop"
    /\ index <= Len(BackendList)
    /\ calls' = Append(calls, BackendList[index].name)
    /\ before' = prices
    /\ \E resp \in [{ c \in Commodities : CommodityConfig[c].backend = BackendList[index].backend }
                       -> Responses] :
       \E out \in { fetch_prices(BackendList[index], prices, today, resp) } :
          IF out.exception # ""
          THEN \E st \in { HandleException([cmd |-> cmd, index |-> index, report |-> report],
                                            BackendList[index], out.exception) } :
                  /\ prices' = Rollback(prices, {})
                  /\ cmd' = st.cmd
                  /\ index' = st.index
                  /\ report' = st.report
                  /\ new_prices' = <<>>
                  /\ responses' = out.responses
                  /\ tx_rows' = {}
          ELSE /\ new_prices' = out.prices
               /\ responses' = out.responses
               /\ tx_rows' = {}
               /\ cmd' = "insert"
               /\ UNCHANGED <<prices, index, report>>
    /\ UNCHANGED today
    /\ UNCHANGED bfsVars
    /\ UNCHANGED ledgerVars
    /\ UNCHANGED writers

\* Price.objects.bulk_create: the next row of the list is inserted, or a
\* constraint rejects it and the exception leaves update_prices
BulkCreateRow ==
    /\ cmd = "insert"
    /\ Cardinality(tx_rows) < Len(new_prices)
    /\ LET new_price == new_prices[Cardinality(tx_rows) + 1]
           row == [commodity |-> new_price.commodity, unit |-> new_price.unit,
                   date |-> new_price.date, backend |-> BackendList[index].name,
                   price |-> new_price.price]
       IN  IF PriceConstraints(prices \cup tx_rows, row)
           THEN /\ tx_rows' = tx_rows \cup {row}
                /\ UNCHANGED <<prices, cmd, index, report, responses, new_prices>>
           ELSE \E st \in { HandleException([cmd |-> cmd, index |-> index, report |-> report],
                                             BackendList[index], "IntegrityError") } :
                   /\ prices' = Rollback(prices, tx_rows)
                   /\ tx_rows' = {}
                   /\ UNCHANGED <<responses, new_prices>>
                   /\ cmd' = st.cmd
                   /\ index' = st.index
                   /\ report' = st.report
    /\ UNCHANGED <<today, calls, before>>
    /\ UNCHANGED bfsVars
    /\ UNCHANGED ledgerVars
    /\ UNCHANGED writers

\* update_prices returns: the atomic block commits
UpdatePricesCommit ==
    /\ cmd = "insert"
    /\ Cardinality(tx_rows) = Len(new_prices)
    /\ prices' = Commit(prices, tx_rows)
    /\ tx_rows' = {}
    /\ UNCHANGED <<responses, new_prices>>
    /\ \E st \in { HandleSuccess([cmd |-> cmd, index |-> index, report |-> report],
                                   BackendList[index]) } :
          /\ cmd' = st.cmd
          /\ index' = st.index
          /\ report' = st.report
    /\ UNCHANGED <<today, calls, before>>
    /\ UNCHANGED bfsVars
    /\ UNCHANGED ledgerVars
    /\ UNCHANGED writers

\* the for loop is over: Command.handle returns
HandleReturn ==
    /\ cmd = "loop"
    /\ index > Len(BackendList)
    /\ cmd' = "idle"
    /\ UNCHANGED <<prices, today, index, calls, report, responses, new_prices, tx_rows, before>>
    /\ UNCHANGED bfsVars
    /\ UNCHANGED ledgerVars
    /\ UNCHANGED writers

UpdateNext ==
    \/ ManualCreatePrice
    \/ Tick
    \/ HandleStart
    \/ UpdatePricesFetch
    \/ BulkCreateRow
    \/ UpdatePricesCommit
    \/ HandleReturn

UpdateSpec == Init /\ [][UpdateNext]_vars

\* ========================================================== ledger properties
Flagged(t) == { p \in TransactionPostings(postings, t) : p.is_balance_posting }

NonFlagged(t) == { p \in TransactionPostings(postings, t) : ~p.is_balance_posting }

\* the row of the posting whose save ran last
SavedPosting == CHOOSE p \in postings : p.id = saved

RECURSIVE SumAmounts(_)
SumAmounts(rows) ==
    IF rows = {} THEN 0
    ELSE LET p == CHOOSE x \in rows : TRUE IN p.amount + SumAmounts(rows \ {p})

\* C1: after a posting of a transaction with exactly one balance posting is
\* saved, the balance posting's stored amount is the negated sum of the
\* non-flagged postings' amounts, each converted into the balance posting's
\* own commodity (stored to two decimal places).
C1_BalanceInOwnCommodity ==
    saved # 0 =>
        LET t == SavedPosting.transaction
        IN  \A b \in Flagged(t) :
                Cardinality(Flagged(t)) = 1 =>
                    \E order \in RowOrders(LatestPrices(prices)) :
                        b.amount = Quantize(calculate_balance_amount(postings, b, order))

\* C2: in every state, the amounts of all postings of a transaction with a
\* balance posting, each converted into the balance posting's commodity, sum
\* to zero (to two decimal places).
C2_DoubleEntry ==
    \A t \in Transactions : \A b \in Flagged(t) :
        Cardinality(Flagged(t)) = 1 =>
            \E order \in RowOrders(LatestPrices(prices)) :
                Quantize(SumTerms(TransactionPostings(postings, t), b, order)) = 0

\* C3: in every state every transaction has at most one posting flagged as
\* balance posting.
C3_AtMostOneBalancePosting ==
    \A t \in Transactions : Cardinality(Flagged(t)) <= 1

SameCommodity(t) ==
    \A p, q \in TransactionPostings(postings, t) : p.commodity = q.commodity

\* C4: in a transaction whose postings share one commodity and that has
\* exactly one balance posting, after a non-balance posting is saved the
\* balance posting's amount is the negated sum of the non-flagged amounts.
C4_SameCommodityBalance ==
    (saved # 0 /\ ~SavedPosting.is_balance_posting) =>
        LET t == SavedPosting.transaction
        IN  (SameCommodity(t) /\ Cardinality(Flagged(t)) = 1) =>
                \A b \in Flagged(t) : b.amount = 0 - SumAmounts(NonFlagged(t))

C4_Witness ==
    /\ saved # 0
    /\ ~SavedPosting.is_balance_posting
    /\ SameCommodity(SavedPosting.transaction)
    /\ Cardinality(NonFlagged(SavedPosting.transaction)) = 2
    /\ \E b \in Flagged(SavedPosting.transaction) :
          /\ Cardinality(Flagged(SavedPosting.transaction)) = 1
          /\ b.amount = 0 - 200

\* the instances a caller may pass to save for the posting of that id
PostingInputs(id) ==
    { [id |-> id, transaction |-> t, account |-> acc, commodity |-> c,
       amount |-> a, is_balance_posting |-> f] :
        t \in Transactions, acc \in Accounts,
        c \in PostingCommodities, a \in AmountInputs, f \in BOOLEAN }

\* the table and the outcome after inst.save() on the table rows
SaveOutcome(rows, inst, order) ==
    update_balancing_amount(WriteRow(rows, PostingSave(inst)), PostingSave(inst), order)

\* C11: saving a posting again with the same amount and commodity, nothing
\* else changed in between, leaves the balance posting's stored amount (and
\* every other row) as the first save left it: the second recompute yields
\* the value already stored.  Stated of the posting saved last, saved with
\* any input and then once more with that input.
C11_ResaveIdempotent ==
    \A order \in RowOrders(LatestPrices(prices)) : \A inst \in PostingInputs(saved) :
        \A first \in { SaveOutcome(postings, inst, order) } :
        \A second \in { SaveOutcome(first.rows, inst, order) } :
            /\ second.rows = first.rows
            /\ second.raised = first.raised

\* a posting in another commodity than the balance posting was saved last,
\* the balance amount came out of a conversion, and saving that posting's
\* row again recomputes the amount already stored
C11_Witness ==
    /\ saved # 0
    /\ ~raised
    /\ ~SavedPosting.is_balance_posting
    /\ Cardinality(NonFlagged(SavedPosting.transaction)) = 2
    /\ ~SameCommodity(SavedPosting.transaction)
    /\ Cardinality(Flagged(SavedPosting.transaction)) = 1
    /\ \E b \in Flagged(SavedPosting.transaction) : b.amount = 0 - 133
    /\ \A order \in RowOrders(LatestPrices(prices)) :
          SaveOutcome(postings, SavedPosting, order).rows = postings

\* C12: a posting save is atomic with its balance follow-up: when the
\* recompute after a posting write raises, the posting write is not left
\* persisted, so the table is as it was before the save.
C12_SaveAtomicWithRecompute ==
    [][raised' => postings' = postings]_vars

\* C13: every stored posting has its commodity equal to its account's
\* default currency (Posting has no foreign commodity to match instead): a
\* write of a posting in another commodity is rejected and stores no row.
C13_AnchoredToDefaultCurrency ==
    \A p \in postings : p.commodity = default_currency[p.account]

\* C21: a posting saved with amount zero is stored flagged as balance
\* posting, and one saved with another amount is stored with the flag it
\* carried into the save; so no stored posting without the flag has amount
\* zero.
C21_ZeroAmountFlagged ==
    /\ \A p \in postings : ~p.is_balance_posting => p.amount # 0
    /\ \A order \in RowOrders(LatestPrices(prices)) : \A inst \in PostingInputs(saved) :
       \A out \in { SaveOutcome(postings, inst, order) } :
       \A row \in out.rows :
           row.id = inst.id =>
               row.is_balance_posting = (inst.amount = 0 \/ inst.is_balance_posting)

\* the posting saved last is flagged and holds a recomputed amount, next to
\* a posting that is not flagged
C21_Witness ==
    /\ saved # 0
    /\ ~raised
    /\ SavedPosting.is_balance_posting
    /\ SavedPosting.amount = 0 - 100
    /\ NonFlagged(SavedPosting.transaction) # {}

\* the balance posting's amount after row p is saved as it stands
BalanceAfterSave(p, order) ==
    { b.amount : b \in { r \in SaveOutcome(postings, p, order).rows :
                            r.transaction = p.transaction /\ r.is_balance_posting } }

\* C24: for a fixed set of postings of a transaction with exactly one
\* balance posting and a fixed price store, the balance posting's amount
\* after a save is the same whichever posting of the transaction is saved,
\* also when the postings are in different commodities.
C24_SavedPostingIrrelevant ==
    \A t \in Transactions : \A order \in RowOrders(LatestPrices(prices)) :
        Cardinality(Flagged(t)) = 1 =>
            \A p, q \in NonFlagged(t) : BalanceAfterSave(p, order) = BalanceAfterSave(q, order)

\* the rows before a step that deleted a posting without the flag
DeletedPlain(before_rows, after_rows) ==
    { p \in before_rows \ after_rows : ~p.is_balance_posting }

\* the one balance posting of the transaction holds the negated sum of the
\* other amounts
InBalance(rows, t) ==
    LET flagged == { q \in TransactionPostings(rows, t) : q.is_balance_posting }
        others  == { q \in TransactionPostings(rows, t) : ~q.is_balance_posting }
    IN  /\ Cardinality(flagged) = 1
        /\ \A b \in flagged : b.amount = NegatedSum(others)

\* C26: deleting a posting that is not the balance posting runs no
\* recompute: every other row, the balance posting included, stays as it
\* was, so a transaction that was in balance is out of balance after the
\* deletion.
C26_DeleteLeavesBalance ==
    [][(saved' = 0 /\ DeletedPlain(postings, postings') # {}) =>
          \A p \in DeletedPlain(postings, postings') :
              /\ postings' = postings \ {p}
              /\ InBalance(postings, p.transaction) => ~InBalance(postings', p.transaction)]_vars

\* a posting was deleted and the balance posting still holds the negated sum
\* of two postings, of which one is left
C26_Witness ==
    /\ saved = 0
    /\ \E t \in Transactions :
          /\ Cardinality(NonFlagged(t)) = 1
          /\ Cardinality(Flagged(t)) = 1
          /\ SameCommodity(t)
          /\ \E b \in Flagged(t) : b.amount = 0 - 200

\* C22: two saves of postings of one transaction that interleave can leave
\* the balance posting with an amount that is not the negated converted sum of
\* the other postings; the first save of a posting of that transaction that
\* then runs on its own leaves the balance posting's amount equal to the
\* negated sum of the other postings' amounts, each converted into the
\* balance posting's commodity.
C22_QuietSaveRestores ==
    \A w \in Writers :
        (saved # 0 /\ ~Active(w) /\ writers[w].mode = "recover") =>
            \A b \in Flagged(SavedPosting.transaction) :
                Cardinality(Flagged(SavedPosting.transaction)) = 1 =>
                    \E order \in RowOrders(LatestPrices(prices)) :
                        b.amount = Quantize(calculate_balance_amount(postings, b, order))

\* C20: when more than one posting of the transaction is flagged, the
\* recompute after a posting write picks one of them and the write completes
\* without an error.
C20_SeveralFlaggedNoError ==
    (saved # 0 /\ Cardinality(Flagged(SavedPosting.transaction)) > 1) => ~raised

\* ======================================================= ingestion properties
WebsiteName == "Website Scraper"

\* the last entry of the command's report
LastReport == report[Len(report)]

\* C14: the command calls update_prices once on every backend of its list,
\* in list order, each call completed before the next begins; an exception
\* of one backend is reported for that backend, the later backends still
\* run, and the command ends without raising.
C14_EveryBackendOnceInOrder ==
    /\ cmd \in {"idle", "loop", "insert"}
    /\ Len(calls) <= Len(BackendList)
    /\ \A i \in 1..Len(calls) : calls[i] = BackendList[i].name
    /\ Len(report) <= Len(calls)
    /\ \A i \in 1..Len(report) : report[i].backend = calls[i]
    /\ cmd = "insert" => (Len(calls) = Len(report) + 1 /\ index = Len(calls))
    /\ cmd = "loop" => (Len(calls) = Len(report) /\ index = Len(calls) + 1)
    /\ (cmd = "idle" /\ calls # <<>>) =>
          (Len(calls) = Len(BackendList) /\ Len(report) = Len(BackendList))

\* the command has returned; its first backend failed, its second one
\* committed a row
C14_Witness ==
    /\ cmd = "idle"
    /\ Len(report) = 2
    /\ report[1].outcome # "done"
    /\ report[2].outcome = "done"
    /\ \E r \in prices : r.backend = report[2].backend /\ r \notin before

\* C15: a run of update_prices that fails (the fetch raises or a row of the
\* bulk insert violates a constraint) leaves the Price table as it was when
\* the run began, rows of earlier runs included; rows inserted in a run still
\* open are not in the table.
C15_RunAllOrNothing ==
    (cmd = "insert" \/ (cmd = "loop" /\ report # <<>> /\ LastReport.outcome # "done"))
        => prices = before

\* the second row of a bulk insert violated a constraint after the first had
\* been inserted; the table still holds a row an earlier run committed
C15_Witness ==
    /\ cmd = "loop"
    /\ report # <<>>
    /\ LastReport.outcome = "IntegrityError"
    /\ Len(new_prices) = 2
    /\ new_prices[1].price > 0
    /\ new_prices[2].price = 0
    /\ prices = before
    /\ \E r \in prices : r.backend = LastReport.backend

\* C16: update_prices on a backend the command runs never ends in the
\* abstract backend's NotImplementedError: every concrete backend overrides
\* the hook update_prices calls.
C16_ConcreteBackendsOverrideHook ==
    \A i \in 1..Len(report) : report[i].outcome # "NotImplementedError"

\* C17: no two Price rows, committed or inserted in the open block, share
\* (commodity, unit, date, backend).
C17_UniquePriceKey ==
    \A r1, r2 \in prices \cup tx_rows : PriceKey(r1) = PriceKey(r2) => r1 = r2

\* a hand-entered row and a scraped row of one commodity, unit and date are
\* both stored; a second hand-entered row of that key at another price is
\* one the constraints reject while the table has room for it
C17_Witness ==
    /\ Cardinality(prices) < MaxPrices
    /\ \E r1, r2 \in prices :
          /\ r1.commodity = r2.commodity /\ r1.unit = r2.unit /\ r1.date = r2.date
          /\ r1.backend = "Manual" /\ r2.backend = WebsiteName
          /\ \E p \in PriceValues \ {r1.price} :
                ~PriceConstraints(prices, [r1 EXCEPT !.price = p])

\* the records of the last fetch for commodity c
RecordsOf(c) == { i \in 1..Len(new_prices) : new_prices[i].commodity = c }

RowsOf(c, u) == { r \in prices : r.commodity = c /\ r.unit = u }

\* the rows of the greatest date of their (commodity, unit) pair
NewestRows(c, u) == { r \in RowsOf(c, u) : \A o \in RowsOf(c, u) : o.date <= r.date }

SeveralDates(c, u) == \E r1, r2 \in RowsOf(c, u) : r1.date # r2.date

\* commodities one latest price (forward or inverted) away from c
LatestNeighbours(c) ==
    { x \in Commodities : NewestRows(c, x) # {} \/ NewestRows(x, c) # {} }

RECURSIVE Connected(_)
Connected(S) ==
    LET T == S \cup UNION { LatestNeighbours(c) : c \in S }
    IN  IF T = S THEN S ELSE Connected(T)

\* the product of the edge weights along a path, taken in path order
RECURSIVE PathProduct(_, _)
PathProduct(p, lk) ==
    IF Len(p) <= 1 THEN One
    ELSE DecMul(PathProduct(SubSeq(p, 1, Len(p) - 1), lk), lk[<<p[Len(p) - 1], p[Len(p)]>>])

\* C5: for every (commodity, unit) pair with rows on several dates (and no
\* rows of the reverse pair), the snapshot's edge weight commodity->unit is
\* the price of the pair's newest row and unit->commodity is its inverse,
\* whatever the other pairs of the store hold.
C5_OnlyLatestRowUsed ==
    pc \in {"bfs", "done"} /\ target # NoCommodity =>
        \A c, u \in Commodities :
            (SeveralDates(c, u) /\ RowsOf(u, c) = {}) =>
                \A r \in NewestRows(c, u) :
                    /\ prices_lookup[<<c, u>>] = r.price
                    /\ prices_lookup[<<u, c>>] = DecDiv(One, r.price)

\* C6: a target that is an unknown code, or a commodity no chain of latest
\* prices connects to the source, makes convert_to return exactly 1; and the
\* search never reads a weight the lookup lacks.
C6_UnresolvableReturnsOne ==
    /\ (pc = "done" /\ (target = NoCommodity \/ target \notin Connected({self})))
          => result = One
    /\ pc = "bfs" =>
          \A c \in Commodities : \A i \in 1..Len(graph[c]) :
              prices_lookup[<<c, graph[c][i]>>] # 0

C6_Witness ==
    /\ pc = "done"
    /\ target # NoCommodity
    /\ target \notin Connected({self})
    /\ Len(graph[self]) > 0
    /\ queue = <<>>

\* C7: C.convert_to(C) returns 1 for every commodity C and every price store.
C7_SelfConversionIsOne ==
    (pc = "done" /\ target = self) => result = One

C7_Witness ==
    /\ pc = "done"
    /\ target = self
    /\ \E r \in prices : r.commodity = self \/ r.unit = self

\* C8: if the newest price of A in unit B is V (and no price of B in unit A
\* is recorded), A.convert_to(B) returns V and B.convert_to(A) returns 1/V.
C8_DirectAndInverse ==
    pc = "done" =>
        \A a, b \in Commodities : \A r \in NewestRows(a, b) :
            RowsOf(b, a) = {} =>
                /\ (self = a /\ target = b) => result = r.price
                /\ (self = b /\ target = a) => result = DecDiv(One, r.price)

\* A priced in B and B priced in C are the only two rows, A, B, C distinct
TwoRowChain(r1, r2) ==
    /\ prices = {r1, r2}
    /\ r1.unit = r2.commodity
    /\ r1.commodity # r2.unit

\* C9: with A priced in B at V1 and B priced in C at V2 the only prices,
\* A.convert_to(C) = V1 * V2 and C.convert_to(A) = (1/V2) * (1/V1); and the
\* factor of every queued entry, and the factor returned when the target is
\* found, is the product of the edge weights along that entry's path.
C9_Transitive ==
    /\ pc = "bfs" =>
          \A i \in 1..Len(queue) :
              /\ queue[i].factor = PathProduct(queue[i].path, prices_lookup)
              /\ queue[i].path[1] = self
              /\ queue[i].path[Len(queue[i].path)] = queue[i].node
    /\ (pc = "done" /\ path # <<>> /\ path[Len(path)] = target)
          => result = PathProduct(path, prices_lookup)
    /\ pc = "done" =>
          \A r1, r2 \in prices :
              TwoRowChain(r1, r2) =>
                  /\ (self = r1.commodity /\ target = r2.unit)
                        => result = DecMul(r1.price, r2.price)
                  /\ (self = r2.unit /\ target = r1.commodity)
                        => result = DecMul(DecDiv(One, r2.price), DecDiv(One, r1.price))

C9_Witness ==
    /\ pc = "done"
    /\ \E r1, r2 \in prices :
          /\ TwoRowChain(r1, r2)
          /\ self = r2.unit
          /\ target = r1.commodity
          /\ Len(path) = 3
          /\ result # One

\* one more than the longest adjacency list
Fanout ==
    LET lens == { Len(graph[c]) : c \in Commodities }
    IN  1 + CHOOSE m \in lens : \A l \in lens : l <= m

RECURSIVE Power(_, _)
Power(b, e) == IF e <= 0 THEN 1 ELSE b * Power(b, e - 1)

EntryWeight(e) ==
    IF Len(e.path) > Cardinality(Commodities) THEN 0
    ELSE Power(Fanout, Cardinality(Commodities) - Len(e.path))

RECURSIVE QueueWeight(_)
QueueWeight(q) == IF q = <<>> THEN 0 ELSE EntryWeight(Head(q)) + QueueWeight(Tail(q))

\* the measure of the work the search has left
Variant == QueueWeight(queue)

\* C10: convert_to terminates on every price graph, cycles and doubly priced
\* pairs included: every iteration of the while loop strictly decreases a
\* natural-number measure of the queue, so the loop ends with the queue
\* empty or the target dequeued.
C10_Terminates ==
    [][ConvertStep => Variant' < Variant]_vars

C10_Witness ==
    /\ pc = "done"
    /\ queue = <<>>
    /\ path # <<>> /\ path[Len(path)] # target
    /\ Cardinality(visited) >= 2
    /\ \E r1, r2 \in prices : r1.commodity = r2.unit /\ r1.unit = r2.commodity
                              /\ self = r1.commodity

\* the commodities adjacent to c in the snapshot graph
Adjacent(c) == { graph[c][i] : i \in 1..Len(graph[c]) }

\* the least number of edges from the commodities of frontier (d edges away
\* from the source) to tgt, -1 when no path leads there
RECURSIVE HopDistance(_, _, _, _)
HopDistance(frontier, seen, tgt, d) ==
    IF tgt \in frontier THEN d
    ELSE IF frontier = {} THEN 0 - 1
    ELSE HopDistance((UNION { Adjacent(c) : c \in frontier }) \ (seen \cup frontier),
                     seen \cup frontier, tgt, d + 1)

IsGraphPath(p) == \A i \in 1..(Len(p) - 1) : p[i + 1] \in Adjacent(p[i])

\* C19: when the target is reachable from the source in the snapshot graph,
\* convert_to returns the product of the edge weights along a path from the
\* source to the target that has the minimum number of edges.
C19_FewestEdges ==
    (pc = "done" /\ target # NoCommodity /\ HopDistance({self}, {}, target, 0) >= 0) =>
        /\ path # <<>>
        /\ path[1] = self
        /\ path[Len(path)] = target
        /\ IsGraphPath(path)
        /\ Len(path) - 1 = HopDistance({self}, {}, target, 0)
        /\ result = PathProduct(path, prices_lookup)

\* the target is one edge away and also two edges away over the third
\* commodity, at a different rate; the one-edge factor is returned
C19_Witness ==
    /\ pc = "done"
    /\ target # NoCommodity
    /\ Len(path) = 2
    /\ path[2] = target
    /\ \E m \in Commodities \ {self, target} :
          /\ m \in Adjacent(self)
          /\ target \in Adjacent(m)
          /\ PathProduct(<<self, m, target>>, prices_lookup) # result
    /\ result = prices_lookup[<<self, target>>]

Reverse(p) == [i \in 1..Len(p) |-> p[Len(p) + 1 - i]]

\* the call the other way round on the snapshot of the finished call
ConvertBack == BfsRun(BfsInit(target), [graph |-> graph, lookup |-> prices_lookup], self)

\* the paths from src to tgt with the minimum number of edges
ShortestPaths(src, tgt) ==
    LET d == HopDistance({src}, {}, tgt, 0)
    IN  IF d < 0 THEN {}
        ELSE { p \in [1..(d + 1) -> Commodities] :
                 /\ p[1] = src
                 /\ p[d + 1] = tgt
                 /\ IsGraphPath(p) }

\* no multiplication along the path is rounded
RECURSIVE ExactProduct(_, _)
ExactProduct(p, lk) ==
    IF Len(p) <= 1 THEN TRUE
    ELSE /\ ExactProduct(SubSeq(p, 1, Len(p) - 1), lk)
         /\ (PathProduct(SubSeq(p, 1, Len(p) - 1), lk) * lk[<<p[Len(p) - 1], p[Len(p)]>>]) % Unit = 0

\* no inverse and no product on the path, in either direction, is rounded
Unrounded(p, lk) ==
    /\ \A i \in 1..(Len(p) - 1) : lk[<<p[i], p[i + 1]>>] * lk[<<p[i + 1], p[i]>>] = Unit * Unit
    /\ ExactProduct(p, lk)
    /\ ExactProduct(Reverse(p), lk)

\* the found call: a finished convert_to whose target is connected to the
\* source
RoundTripCase ==
    /\ pc = "done"
    /\ target # NoCommodity
    /\ HopDistance({self}, {}, target, 0) >= 0

====
